---- MODULE Spec2Model ----
(***************************************************************************)
(* The timetable generator of src/app.py: the /generate_timetable handler  *)
(* builds a CP-SAT model from the request (create_timetable), has it       *)
(* solved, decodes the solution and answers.                               *)
(*                                                                         *)
(* Identifiers are small integers and every list of the request is in      *)
(* ascending identifier order, so the insertion order of the `assignment`  *)
(* dictionary (section, slot, subject, teacher, room loops, lines 54-73)   *)
(* is the lexicographic order of its keys.  An entity's display name       *)
(* stands for the entity, and a slot's (day, start_time, end_time) for its *)
(* index.                                                                  *)
(***************************************************************************)
EXTENDS Integers, Sequences, FiniteSets, TLC

VARIABLES
    pc,          \* where the handler is: "idle", "handling", "done"
    req,         \* the request's JSON body
    assignment,  \* the keys of create_timetable's `assignment` dictionary
    model,       \* the CpModel: the rows of its constraints
    status,      \* solver.Solve's status, "NONE" before any solve
    value,       \* the solver's valuation of the Boolean variables
    response     \* the handler's answer

vars == <<pc, req, assignment, model, status, value, response>>

(* ------------------------------ bounds --------------------------------- *)
\* lecture slots of a request: 0 .. MaxSlots
MaxSlots == 2
\* lec_per_week of a subject: 1 .. MaxLec
MaxLec == 2
\* (section, subject) requirements of a request
MaxPairs == 2
\* unavailable slots of one teacher
MaxUnavailable == 1

TeacherIds == {1, 2}
SectionIds == {1, 2}
RoomIds == {1, 2}
SubjectIds == {1, 2}

SlotIdx(n) == 0 .. (n - 1)

(* ------------------------------ requests ------------------------------- *)
RECURSIVE SetCode(_)
SetCode(S) == IF S = {} THEN 0 ELSE LET e == CHOOSE x \in S : TRUE IN 2 ^ e + SetCode(S \ {e})

TeacherPayloads(n) ==
    [subject_ids : SUBSET SubjectIds,
     unavailable_slots : {u \in SUBSET SlotIdx(n) : Cardinality(u) <= MaxUnavailable}]

\* Teachers enter the model through their identifier alone (no loop position
\* of a teacher is ever used), so one listing order per pair of teachers is
\* enough.
TeacherOrder(a, b) ==
    \/ SetCode(a.subject_ids) < SetCode(b.subject_ids)
    \/ /\ a.subject_ids = b.subject_ids
       /\ SetCode(a.unavailable_slots) <= SetCode(b.unavailable_slots)

TeacherLists(n) ==
    {T \in [TeacherIds -> TeacherPayloads(n)] :
        \A i \in TeacherIds : \A j \in TeacherIds : i < j => TeacherOrder(T[i], T[j])}

SectionLists ==
    {S \in [SectionIds -> [subject_ids : SUBSET SubjectIds]] :
        Cardinality({p \in SectionIds \X SubjectIds : p[2] \in S[p[1]].subject_ids}) <= MaxPairs}

\* a room object of the payload: `keys` are its keys beyond id, name, is_lab
PlainRooms == [is_lab : BOOLEAN, keys : {{}}, unavailable_slots : {{}}]

KeyedRooms(n) ==
    [is_lab : {FALSE}, keys : {{"unavailable_slots"}},
     unavailable_slots : {SlotIdx(n) \cap {0}}]

RoomLists(n) == [RoomIds -> PlainRooms] \cup [RoomIds -> KeyedRooms(n)]

SubjectPayloads == [lec_per_week : 1 .. MaxLec, requires_lab : BOOLEAN]

\* the subjects list holds subject 1, or subjects 1 and 2
SubjectLists == UNION {[L -> SubjectPayloads] : L \in {{1}, {1, 2}}}

Request(n, T, S, R, J) ==
    [nslots |-> n, teachers |-> T, sections |-> S, rooms |-> R, subjects |-> J]

NoRequest ==
    [nslots |-> 0,
     teachers |-> [t \in TeacherIds |-> [subject_ids |-> {}, unavailable_slots |-> {}]],
     sections |-> [s \in SectionIds |-> [subject_ids |-> {}]],
     rooms |-> [r \in RoomIds |-> [is_lab |-> FALSE, keys |-> {}, unavailable_slots |-> {}]],
     subjects |-> [s \in {1} |-> [lec_per_week |-> 1, requires_lab |-> FALSE]]]

NoModel == [quota |-> <<>>, chosen |-> <<>>, teacher |-> {}, room |-> {}, b2b |-> <<>>]

NoValue == [A |-> {}, chosen |-> {}, b2b |-> {}]

NoResponse == [status |-> "", code |-> 0, type |-> "none", entries |-> <<>>, text |-> ""]

(* ------------------------- request parsing ----------------------------- *)
\* Room(**r): a key beyond id, name, is_lab is an unexpected keyword argument.
ConstructError(d) == \E r \in RoomIds : d.rooms[r].keys # {}

(* ---------------- create_timetable: variables (lines 50-73) ------------ *)
subject_map(d) == d.subjects

\* variant: loops that skip a subject id subject_map does not hold
PairsOfListedSubjects(d) ==
    {p \in SectionIds \X SubjectIds :
        p[2] \in d.sections[p[1]].subject_ids /\ p[2] \in DOMAIN subject_map(d)}

\* `for section in sections: for subj_id in section.subject_ids` (lines 54-56,
\* 80-81, 93-94)
Pairs(d) == {p \in SectionIds \X SubjectIds : p[2] \in d.sections[p[1]].subject_ids}

UnknownSubject(d) == \E p \in Pairs(d) : p[2] \notin DOMAIN subject_map(d)

\* line 57: subject_map[subj_id] inside the slot loop
KeyErrorInVariables(d) == d.nslots > 0 /\ UnknownSubject(d)

\* line 82: subject_map[subj_id].lec_per_week, outside any slot loop
KeyErrorInQuota(d) == UnknownSubject(d)

\* variant: filter 1 left out
QualifiedUnfiltered(d, t, subj) == TRUE

\* line 60
QualifiedFilter(d, t, subj) == subj \in d.teachers[t].subject_ids

\* variant: filter 2 left out
AvailableUnfiltered(d, t, slot) == TRUE

\* line 64
AvailableFilter(d, t, slot) == slot \notin d.teachers[t].unavailable_slots

\* line 69
LabFilter(d, subj, r) == ~(subject_map(d)[subj].requires_lab /\ ~d.rooms[r].is_lab)

\* a list built by a loop, as the set of its members
List(S) == {k : k \in S}

\* keys are <<section, slot, subject, teacher, room>>
AssignmentKeys(d) ==
    List({k \in SectionIds \X SlotIdx(d.nslots) \X SubjectIds \X TeacherIds \X RoomIds :
            /\ <<k[1], k[3]>> \in Pairs(d)
            /\ QualifiedFilter(d, k[4], k[3])
            /\ AvailableFilter(d, k[4], k[2])
            /\ LabFilter(d, k[3], k[5])})

Raised(d) ==
    IF ConstructError(d) THEN "TypeError"
    ELSE IF KeyErrorInVariables(d) \/ KeyErrorInQuota(d) THEN "KeyError"
    ELSE "none"

(* ---------------- create_timetable: constraints (lines 79-185) --------- *)
vars_list(asg, sec, subj) == List({k \in asg : k[1] = sec /\ k[3] = subj})

qualified_teachers(d, subj) == {t \in TeacherIds : subj \in d.teachers[t].subject_ids}

lecture_sum(asg, sec, subj, t) ==
    List({k \in asg : k[1] = sec /\ k[3] = subj /\ k[4] = t})

vars_teacher(asg, slot, t) == List({k \in asg : k[2] = slot /\ k[4] = t})

vars_room(asg, slot, r) == List({k \in asg : k[2] = slot /\ k[5] = r})

\* dictionary insertion order of two keys
LexLess(k, j) == \E i \in 1 .. 5 : k[i] < j[i] /\ \A m \in 1 .. (i - 1) : k[m] = j[m]

\* list[0] of a non-empty list filtered from assignment.items()
First(keys) == CHOOSE k \in keys : \A j \in keys \ {k} : LexLess(k, j)

lectures_at_current(asg, t, slot) == vars_teacher(asg, slot, t)

lectures_at_next(asg, t, slot) == vars_teacher(asg, slot + 1, t)

\* the (teacher, slot) pairs that get a back_to_back indicator (lines 151-170)
penalty_vars(d, asg) ==
    {b \in TeacherIds \X (0 .. (d.nslots - 2)) :
        lectures_at_current(asg, b[1], b[2]) # {} /\ lectures_at_next(asg, b[1], b[2]) # {}}

\* 1. one sum per (section, subject)
QuotaRows(d, asg) ==
    [p \in Pairs(d) |-> [vars_list |-> vars_list(asg, p[1], p[2]),
                         required_lec |-> subject_map(d)[p[2]].lec_per_week]]

\* 2. per (section, subject), the lecture_sum of every qualified teacher
ChosenRows(d, asg) ==
    [p \in Pairs(d) |-> [t \in qualified_teachers(d, p[2]) |-> lecture_sum(asg, p[1], p[2], t)]]

\* 3. the non-empty vars_teacher lists
TeacherRows(d, asg) ==
    {vars_teacher(asg, x[1], x[2]) : x \in SlotIdx(d.nslots) \X TeacherIds} \ {{}}

\* 4. the non-empty vars_room lists
RoomRows(d, asg) ==
    {vars_room(asg, x[1], x[2]) : x \in SlotIdx(d.nslots) \X RoomIds} \ {{}}

\* the two variables lines 177-179 take from the lists of one indicator
BackToBackRows(d, asg) ==
    [b \in penalty_vars(d, asg) |->
        [current0 |-> First(lectures_at_current(asg, b[1], b[2])),
         next0 |-> First(lectures_at_next(asg, b[1], b[2]))]]

\* the CpModel create_timetable hands to the solver
Model(d, asg) ==
    [quota |-> QuotaRows(d, asg), chosen |-> ChosenRows(d, asg),
     teacher |-> TeacherRows(d, asg), room |-> RoomRows(d, asg),
     b2b |-> BackToBackRows(d, asg)]

(* ------------------- what the constraints demand ----------------------- *)
\* A valuation v of the model's Boolean variables: v.A the assignment
\* variables that are true, v.chosen the true chosen_<section>_<subject>_<teacher>
\* indicators, v.b2b the true b2b_<teacher>_<slot> indicators.

\* sum(<list of Boolean variables>) under v
Sum(keys, v) == Cardinality(v.A \cap keys)

\* variant: the quota as an upper limit
QuotaAtMost(row, v) == Sum(row.vars_list, v) <= row.required_lec

\* line 90: model.Add(sum(vars_list) == required_lec)
QuotaConstraint(row, v) == Sum(row.vars_list, v) = row.required_lec

\* variant: the link in one direction only
ChosenLinkOneWay(is_chosen, total) == is_chosen => total > 0

\* lines 111-112: the two OnlyEnforceIf links of one is_chosen indicator
ChosenLink(is_chosen, total) ==
    /\ (~is_chosen => total = 0)
    /\ (is_chosen => total > 0)

\* lines 99-116: the links, and sum(teacher_chosen_vars) == 1 for a non-empty list
ContinuityConstraint(p, row, v) ==
    /\ \A t \in DOMAIN row : ChosenLink(<<p[1], p[2], t>> \in v.chosen, Sum(row[t], v))
    /\ (DOMAIN row # {} =>
            Cardinality({t \in DOMAIN row : <<p[1], p[2], t>> \in v.chosen}) = 1)

\* variant: a teacher's slot left unconstrained
TeacherUnconstrained(row, v) == TRUE

\* line 130: model.Add(sum(vars_teacher) <= 1)
TeacherConstraint(row, v) == Sum(row, v) <= 1

\* line 143: model.Add(sum(vars_room) <= 1)
RoomConstraint(row, v) == Sum(row, v) <= 1

\* lines 177-179
BackToBackConstraint(b, row, v) ==
    LET back_to_back == b \in v.b2b
        current0 == row.current0 \in v.A
        next0 == row.next0 \in v.A
    IN  /\ (~back_to_back \/ ~current0 \/ ~next0)
        /\ (current0 => back_to_back)
        /\ (next0 => back_to_back)

\* line 185: model.Minimize(sum(penalty_vars))
Objective(v) == Cardinality(v.b2b)

HardConstraints(m, v) ==
    /\ \A p \in DOMAIN m.quota : QuotaConstraint(m.quota[p], v)
    /\ \A p \in DOMAIN m.chosen : ContinuityConstraint(p, m.chosen[p], v)
    /\ \A row \in m.teacher : TeacherConstraint(row, v)
    /\ \A row \in m.room : RoomConstraint(row, v)

SoftRows(m, v) == \A b \in DOMAIN m.b2b : BackToBackConstraint(b, m.b2b[b], v)

Satisfies(m, v) == HardConstraints(m, v) /\ SoftRows(m, v)

(* ----------------------- the solver (line 194) ------------------------- *)
RECURSIVE SubsetsUpTo(_, _)
SubsetsUpTo(S, n) ==
    IF n = 0 THEN {{}}
    ELSE LET P == SubsetsUpTo(S, n - 1) IN P \cup {x \cup {k} : x \in P, k \in S}

PairValuation(p, S, c) == [A |-> S, chosen |-> {<<p[1], p[2], t>> : t \in c}, b2b |-> {}]

\* the valuations of one (section, subject)'s own variables that meet its
\* quota and continuity constraints
PairValuations(m, p) ==
    {PairValuation(p, z[1], z[2]) :
        z \in {y \in SubsetsUpTo(m.quota[p].vars_list, MaxLec) \X SUBSET (DOMAIN m.chosen[p]) :
                    /\ QuotaConstraint(m.quota[p], PairValuation(p, y[1], y[2]))
                    /\ ContinuityConstraint(p, m.chosen[p], PairValuation(p, y[1], y[2]))}}

Exclusive(m, v) ==
    /\ \A row \in m.teacher : TeacherConstraint(row, v)
    /\ \A row \in m.room : RoomConstraint(row, v)

Merge(x, y) == [A |-> x.A \cup y.A, chosen |-> x.chosen \cup y.chosen, b2b |-> {}]

\* the valuations of the assignment and chosen variables of `pairs` that
\* meet the hard constraints
RECURSIVE Combine(_, _)
Combine(m, pairs) ==
    IF pairs = {} THEN {NoValue}
    ELSE LET p == CHOOSE q \in pairs : TRUE
         IN  {Merge(z[1], z[2]) :
                z \in {y \in Combine(m, pairs \ {p}) \X PairValuations(m, p) :
                            Exclusive(m, Merge(y[1], y[2]))}}

\* every valuation that satisfies the model
Solutions(m) ==
    {[A |-> z[1].A, chosen |-> z[1].chosen, b2b |-> z[2]] :
        z \in {y \in Combine(m, DOMAIN m.quota) \X SUBSET (DOMAIN m.b2b) :
                    SoftRows(m, [A |-> y[1].A, chosen |-> y[1].chosen, b2b |-> y[2]])}}

Optimal(sols) == {v \in sols : \A w \in sols : Objective(v) <= Objective(w)}

\* what solver.Solve(model) may answer: <<status, valuation>>
Outcomes(m) ==
    LET sols == Solutions(m)
    IN  {<<"UNKNOWN", NoValue>>}
        \cup (IF sols = {} THEN {<<"INFEASIBLE", NoValue>>} ELSE {})
        \cup {<<"FEASIBLE", v>> : v \in sols}
        \cup {<<"OPTIMAL", v>> : v \in Optimal(sols)}

(* ------------------------ decoding (lines 197-220) --------------------- *)
RECURSIVE InOrder(_)
InOrder(keys) ==
    IF keys = {} THEN <<>>
    ELSE LET k == First(keys) IN <<k>> \o InOrder(keys \ {k})

Entry(k) == [section |-> k[1], slot |-> k[2], subject |-> k[3], teacher |-> k[4], room |-> k[5]]

\* the loops of lines 199-214 visit the keys in insertion order
timetable(asg, v) ==
    LET ks == InOrder(asg \cap v.A) IN [i \in 1 .. Len(ks) |-> Entry(ks[i])]

InfeasibleText == "Model is INFEASIBLE. Check constraints for conflicts."

\* the value create_timetable returns, wrapped by line 236
Success(asg, st, v) ==
    IF st \in {"OPTIMAL", "FEASIBLE"}
    THEN [status |-> "success", code |-> 200, type |-> "list",
          entries |-> timetable(asg, v), text |-> ""]
    ELSE IF st = "INFEASIBLE"
    THEN [status |-> "success", code |-> 200, type |-> "str",
          entries |-> <<>>, text |-> InfeasibleText]
    ELSE [status |-> "success", code |-> 200, type |-> "list",
          entries |-> <<>>, text |-> ""]

(* ------------------------------ the handler ---------------------------- *)
Init ==
    /\ pc = "idle"
    /\ req = NoRequest
    /\ assignment = {}
    /\ model = NoModel
    /\ status = "NONE"
    /\ value = NoValue
    /\ response = NoResponse

\* a POST /generate_timetable arrives (line 227)
Receive ==
    /\ pc = "idle"
    /\ \E n \in 0 .. MaxSlots :
       \E T \in TeacherLists(n) :
       \E S \in SectionLists :
       \E R \in RoomLists(n) :
       \E J \in SubjectLists :
          req' = Request(n, T, S, R, J)
    /\ pc' = "handling"
    /\ UNCHANGED <<assignment, model, status, value, response>>

\* lines 228-236 when nothing is raised
Answer ==
    /\ pc = "handling"
    /\ Raised(req) = "none"
    /\ assignment' = AssignmentKeys(req)
    /\ model' = Model(req, assignment')
    /\ \E o \in Outcomes(model') :
        /\ status' = o[1]
        /\ value' = o[2]
        /\ response' = Success(assignment', o[1], o[2])
    /\ pc' = "done"
    /\ UNCHANGED req

\* lines 237-239: the exception handler
Fail ==
    /\ pc = "handling"
    /\ Raised(req) # "none"
    /\ response' = [status |-> "fail", code |-> 500, type |-> "error",
                    entries |-> <<>>, text |-> Raised(req)]
    /\ pc' = "done"
    /\ UNCHANGED <<req, assignment, model, status, value>>

\* the server is ready for the next request; nothing is kept between requests
NextRequest ==
    /\ pc = "done"
    /\ pc' = "idle"
    /\ req' = NoRequest
    /\ assignment' = {}
    /\ model' = NoModel
    /\ status' = "NONE"
    /\ value' = NoValue
    /\ response' = NoResponse

Next == Receive \/ Answer \/ Fail \/ NextRequest

Spec == Init /\ [][Next]_vars

(* ------------------------------- claims -------------------------------- *)
\* create_timetable returned a timetable: the solver status was OPTIMAL or FEASIBLE
Returned == pc = "done" /\ status \in {"OPTIMAL", "FEASIBLE"}

Entries == response.entries

EntriesOf(sec, subj) ==
    {i \in DOMAIN Entries : Entries[i].section = sec /\ Entries[i].subject = subj}

\* some section of the request names a subject id the subjects list lacks
NamesUnknownSubject ==
    \E sec \in SectionIds : \E subj \in req.sections[sec].subject_ids :
        subj \notin DOMAIN req.subjects

\* C1: in every returned timetable, every (section, subject) of the request
\* has exactly lec_per_week entries.
C1_Quota ==
    Returned =>
        \A sec \in SectionIds : \A subj \in req.sections[sec].subject_ids :
            Cardinality(EntriesOf(sec, subj)) = req.subjects[subj].lec_per_week

\* a returned timetable of two (section, subject) pairs, one with two lectures
C1_Witness ==
    /\ Returned
    /\ \E sec \in SectionIds : \E subj \in req.sections[sec].subject_ids :
            req.subjects[subj].lec_per_week = 2 /\ Cardinality(EntriesOf(sec, subj)) = 2
    /\ Len(Entries) >= 3

\* C2: in every returned timetable no two entries of one slot share a teacher
\* and no two share a room, whatever their sections and subjects.
C2_NoDoubleBooking ==
    Returned =>
        \A i \in DOMAIN Entries : \A j \in DOMAIN Entries :
            (i # j /\ Entries[i].slot = Entries[j].slot) =>
                /\ Entries[i].teacher # Entries[j].teacher
                /\ Entries[i].room # Entries[j].room

\* two sections taught by the same teacher in the same room, in a request
\* whose variables would let both sections have them in one slot
C2_Witness ==
    /\ Returned
    /\ \E i \in DOMAIN Entries : \E j \in DOMAIN Entries :
            /\ Entries[i].section # Entries[j].section
            /\ Entries[i].teacher = Entries[j].teacher
            /\ Entries[i].room = Entries[j].room
            /\ <<Entries[j].section, Entries[i].slot, Entries[j].subject,
                  Entries[j].teacher, Entries[j].room>> \in assignment

\* C3: in every returned timetable all entries of a (section, subject) have
\* one teacher; exactly one chosen indicator of the pair is true, and an
\* indicator is true exactly when its teacher has an entry of the pair.
C3_SingleTeacher ==
    Returned =>
        \A sec \in SectionIds : \A subj \in req.sections[sec].subject_ids :
            LET E == EntriesOf(sec, subj)
                Q == {t \in TeacherIds : subj \in req.teachers[t].subject_ids}
            IN  E # {} =>
                    /\ \A i \in E : \A j \in E : Entries[i].teacher = Entries[j].teacher
                    /\ Cardinality({t \in Q : <<sec, subj, t>> \in value.chosen}) = 1
                    /\ \A t \in Q : <<sec, subj, t>> \in value.chosen
                                        <=> \E i \in E : Entries[i].teacher = t

\* a pair with two lectures that either of two qualified teachers, each with
\* variables of the pair, could have taken part in
C3_Witness ==
    /\ Returned
    /\ \E sec \in SectionIds : \E subj \in req.sections[sec].subject_ids :
            /\ Cardinality(EntriesOf(sec, subj)) = 2
            /\ \A t \in TeacherIds :
                    /\ subj \in req.teachers[t].subject_ids
                    /\ \E k \in assignment : k[1] = sec /\ k[3] = subj /\ k[4] = t

\* C4: every assignment variable, and so every entry, has a teacher
\* qualified for its subject and, for a subject that requires a lab, a lab room.
C4_QualifiedAndLabFit ==
    (pc = "done" /\ status # "NONE") =>
        /\ \A k \in assignment :
                /\ k[3] \in req.teachers[k[4]].subject_ids
                /\ (req.subjects[k[3]].requires_lab => req.rooms[k[5]].is_lab)
        /\ \A i \in DOMAIN Entries :
                /\ Entries[i].subject \in req.teachers[Entries[i].teacher].subject_ids
                /\ (req.subjects[Entries[i].subject].requires_lab
                        => req.rooms[Entries[i].room].is_lab)

\* an entry of a lab subject, in a request with a room that is no lab and a
\* teacher not qualified for the subject
C4_Witness ==
    /\ Returned
    /\ \E i \in DOMAIN Entries :
            /\ req.subjects[Entries[i].subject].requires_lab
            /\ \E r \in RoomIds : ~req.rooms[r].is_lab
            /\ \E t \in TeacherIds : Entries[i].subject \notin req.teachers[t].subject_ids

\* C5: no assignment variable, and so no entry, is at a slot of its teacher's
\* unavailable_slots.
C5_TeacherAvailable ==
    (pc = "done" /\ status # "NONE") =>
        /\ \A k \in assignment : k[2] \notin req.teachers[k[4]].unavailable_slots
        /\ \A i \in DOMAIN Entries :
                Entries[i].slot \notin req.teachers[Entries[i].teacher].unavailable_slots

\* an entry whose teacher is unavailable in another slot of the week
C5_Witness ==
    /\ Returned
    /\ \E i \in DOMAIN Entries :
            req.teachers[Entries[i].teacher].unavailable_slots \cap SlotIdx(req.nslots) # {}

\* C6: a room of the request carries its unavailable slots: the request is
\* not refused for it, and no assignment variable or entry is at a slot of
\* its room's unavailable set.
C6_RoomAvailable ==
    pc = "done" =>
        /\ ((\E r \in RoomIds : "unavailable_slots" \in req.rooms[r].keys)
                => response.text # "TypeError")
        /\ \A k \in assignment : k[2] \notin req.rooms[k[5]].unavailable_slots
        /\ \A i \in DOMAIN Entries :
                Entries[i].slot \notin req.rooms[Entries[i].room].unavailable_slots

\* C7: a request whose solve ends INFEASIBLE is answered with a status other
\* than that of a successful run.
C7_InfeasibleIsFailure ==
    (pc = "done" /\ status = "INFEASIBLE") => response.status # "success"

\* C8: a request naming an unknown subject never reaches the solver and is
\* answered {error, status: "fail"} with HTTP 500, also with no lecture slots.
C8_UnknownSubjectFails ==
    (pc = "done" /\ NamesUnknownSubject) =>
        /\ status = "NONE"
        /\ response.status = "fail"
        /\ response.code = 500
        /\ response.type = "error"
        /\ response.entries = <<>>

\* the KeyError of a request with no lecture slots
C8_Witness ==
    /\ pc = "done"
    /\ NamesUnknownSubject
    /\ req.nslots = 0
    /\ response.text = "KeyError"

\* C9: when some valuation meets the four hard constraint families, the
\* model handed to the solver is feasible.
C9_SoftNeverExcludes ==
    (pc = "done" /\ status = "INFEASIBLE") =>
        Combine(model, DOMAIN model.quota) = {}

\* C10: in every solution the solver returns, a back_to_back indicator is
\* true only if its teacher has a lecture in both slots, and is true whenever
\* the teacher has.
C10_BackToBackIffBoth ==
    Returned =>
        \A b \in DOMAIN model.b2b :
            b \in value.b2b <=>
                /\ \E k \in value.A : k[4] = b[1] /\ k[2] = b[2]
                /\ \E k \in value.A : k[4] = b[1] /\ k[2] = b[2] + 1
====
